---- MODULE Spec2Model ----
(***************************************************************************)
(* msgpack-rpc: the message codec (src/src/message.rs) and the server's    *)
(* accept / read / dispatch pipeline (src/src/server.rs).                  *)
(*                                                                         *)
(* A msgpack value is a record with a field t.  An integer keeps rmpv's    *)
(* two representations (PosInt(u64), NegInt(i64)); a u64 is held in two    *)
(* 32-bit halves, hi * 2^32 + lo, so that `as u32` is "keep lo".  The      *)
(* byte stream is a sequence of tokens, one per msgpack marker: an array   *)
(* header carrying its length, or a scalar.                                *)
(***************************************************************************)
EXTENDS Integers, Sequences, FiniteSets, TLC

VARIABLES
    stream,     \* codec: the reader's unread tokens
    packed,     \* codec: the messages whose pack() bytes made the stream (<<>> for a raw value)
    raw,        \* codec: the raw value written to the stream (NoValue when packed)
    got,        \* codec: the results of the successive unpack calls
    backlog,    \* server: connections waiting in the listener's accept queue
    client,     \* server: per connection, "idle" | "open" | "closed" (the peer's side)
    inbuf,      \* server: per connection, the tokens sent by the peer and not yet read
    outbuf,     \* server: per connection, the tokens written back, in wire order
    sendLog,    \* server: per connection, what the peer sent, in order
    nread,      \* server: per connection, the number of values the read loop took
    serverPc,   \* server: the main coroutine: "accept" | "read" | "dead"
    cur,        \* server: the connection the read loop is on ("none" before accept)
    tasks,      \* server: the spawned coroutines, in spawn order
    dispatcher  \* server: the dispatchers' states: [0] the one passed to handle,
                \*         [t] the clone moved into coroutine t

codecVars == <<stream, packed, raw, got>>
serverVars == <<backlog, client, inbuf, outbuf, sendLog, nread, serverPc, cur, tasks,
               dispatcher>>
vars == <<stream, packed, raw, got, backlog, client, inbuf, outbuf, sendLog, nread,
          serverPc, cur, tasks, dispatcher>>

---------------------------------------------------------------------------
(* rmpv::Value *)

Nil == [t |-> "nil"]
IntU(hi, lo) == [t |-> "int", neg |-> FALSE, hi |-> hi, lo |-> lo]
IntNeg(k) == [t |-> "int", neg |-> TRUE, hi |-> 0, lo |-> k]
Str(s) == [t |-> "str", s |-> s, utf8 |-> TRUE]
BadStr == [t |-> "str", s |-> "\\xff", utf8 |-> FALSE]
Arr(a) == [t |-> "arr", a |-> a]
NoValue == [t |-> "none"]

\* Integer::as_u64: None for a NegInt.
AsU64(i) == IF i.neg THEN [some |-> FALSE, hi |-> 0, lo |-> 0]
            ELSE [some |-> TRUE, hi |-> i.hi, lo |-> i.lo]

\* Integer::as_i64: None for a PosInt above i64::MAX (hi >= 2^31).
AsI64(i) == IF ~i.neg /\ i.hi > 2147483647
            THEN [some |-> FALSE, neg |-> FALSE, hi |-> 0, lo |-> 0]
            ELSE [some |-> TRUE, neg |-> i.neg, hi |-> i.hi, lo |-> i.lo]

\* The match arm Some(n) of message.rs:59, for a small literal n.
IsSome(o, n) == o.some /\ ~o.neg /\ o.hi = 0 /\ o.lo = n

\* `id as u32` on a u64: the low 32 bits.
AsU32(u) == u.lo

---------------------------------------------------------------------------
(* Message *)

Request(id, method, params) ==
    [kind |-> "Request", id |-> id, method |-> method, params |-> params]
Response(id, result) == [kind |-> "Response", id |-> id, result |-> result]
Notification(method, params) ==
    [kind |-> "Notification", method |-> method, params |-> params]
NoMsg == [kind |-> "none"]

\* Result<Value, Value>
Ok(v) == [ok |-> TRUE, v |-> v]
Err(e) == [ok |-> FALSE, v |-> e]

msgtype(m) == CASE m.kind = "Request" -> 0
                [] m.kind = "Response" -> 1
                [] m.kind = "Notification" -> 2

---------------------------------------------------------------------------
(* rmpv::encode::write_value and rmpv::decode::read_value, on tokens *)

Scalar(v) == [k |-> "val", v |-> v]
ArrHdr(n) == [k |-> "arr", n |-> n]

RECURSIVE WriteValue(_)
RECURSIVE WriteAll(_)
WriteAll(vs) == IF vs = <<>> THEN <<>> ELSE WriteValue(Head(vs)) \o WriteAll(Tail(vs))
WriteValue(v) == IF v.t = "arr" THEN <<ArrHdr(Len(v.a))>> \o WriteAll(v.a)
                 ELSE <<Scalar(v)>>

\* The element of a singleton.  Only({e(x) : x \in {v}}) is e(v) with v
\* evaluated once, however often e uses it.
Only(S) == CHOOSE x \in S : TRUE

\* read_value: [ok, v, rest]; ok is FALSE when the input ends inside the value.
RECURSIVE ReadValue(_)
RECURSIVE ReadN(_, _)
ReadN(n, toks) ==
    IF n = 0 THEN [ok |-> TRUE, vs |-> <<>>, rest |-> toks]
    ELSE Only({
        IF ~h.ok THEN [ok |-> FALSE, vs |-> <<>>, rest |-> <<>>]
        ELSE Only({
            IF ~r.ok THEN r
            ELSE [ok |-> TRUE, vs |-> <<h.v>> \o r.vs, rest |-> r.rest]
          : r \in {ReadN(n - 1, h.rest)}})
      : h \in {ReadValue(toks)}})
ReadValue(toks) ==
    IF toks = <<>> THEN [ok |-> FALSE, v |-> NoValue, rest |-> <<>>]
    ELSE IF Head(toks).k = "val"
    THEN [ok |-> TRUE, v |-> Head(toks).v, rest |-> Tail(toks)]
    ELSE Only({
        [ok |-> r.ok, v |-> IF r.ok THEN Arr(r.vs) ELSE NoValue, rest |-> r.rest]
      : r \in {ReadN(Head(toks).n, Tail(toks))}})

---------------------------------------------------------------------------
(* Message::pack *)

\* Mutant: a Response's error and result slots change places.
PackValueSwapped(m) ==
    CASE m.kind = "Request" ->
           Arr(<<IntU(0, msgtype(m)), IntU(0, m.id), Str(m.method), Arr(m.params)>>)
      [] m.kind = "Response" ->
           LET error == IF m.result.ok THEN Nil ELSE m.result.v
               result == IF m.result.ok THEN m.result.v ELSE Nil
           IN Arr(<<IntU(0, msgtype(m)), IntU(0, m.id), result, error>>)
      [] m.kind = "Notification" ->
           Arr(<<IntU(0, msgtype(m)), Str(m.method), Arr(m.params)>>)

\* Mutant: an err outcome fills both slots with the error value.
PackValueErrTwice(m) ==
    CASE m.kind = "Request" ->
           Arr(<<IntU(0, msgtype(m)), IntU(0, m.id), Str(m.method), Arr(m.params)>>)
      [] m.kind = "Response" ->
           LET error == IF m.result.ok THEN Nil ELSE m.result.v
               result == m.result.v
           IN Arr(<<IntU(0, msgtype(m)), IntU(0, m.id), error, result>>)
      [] m.kind = "Notification" ->
           Arr(<<IntU(0, msgtype(m)), Str(m.method), Arr(m.params)>>)

PackValue(m) ==
    CASE m.kind = "Request" ->
           Arr(<<IntU(0, msgtype(m)), IntU(0, m.id), Str(m.method), Arr(m.params)>>)
      [] m.kind = "Response" ->
           LET error == IF m.result.ok THEN Nil ELSE m.result.v
               result == IF m.result.ok THEN m.result.v ELSE Nil
           IN Arr(<<IntU(0, msgtype(m)), IntU(0, m.id), error, result>>)
      [] m.kind = "Notification" ->
           Arr(<<IntU(0, msgtype(m)), Str(m.method), Arr(m.params)>>)

pack(m) == WriteValue(PackValue(m))

---------------------------------------------------------------------------
(* Message::unpack.  The outcome is [kind, msg, rest]: kind "ok" is       *)
(* Ok(message), "err" is an Err returned to the caller, "panic" is a      *)
(* panic unwinding the calling task.                                      *)

Returned(m, rest) == [kind |-> "ok", msg |-> m, rest |-> rest]
Panicked(rest) == [kind |-> "panic", msg |-> NoMsg, rest |-> rest]

\* array.get(i).unwrap() with Rust's 0-based i: present iff i < len.
Has(array, i) == i < Len(array)
Get(array, i) == array[i + 1]

UnpackRequest(array, rest) ==
    IF ~Has(array, 1) \/ Get(array, 1).t # "int" THEN Panicked(rest)
    ELSE LET id == AsU64(Get(array, 1)) IN
    IF ~id.some THEN Panicked(rest)
    ELSE IF ~Has(array, 2) \/ Get(array, 2).t # "str" THEN Panicked(rest)
    ELSE IF ~Has(array, 3) \/ Get(array, 3).t # "arr" THEN Panicked(rest)
    ELSE IF ~Get(array, 2).utf8 THEN Panicked(rest)
    ELSE Returned(Request(AsU32(id), Get(array, 2).s, Get(array, 3).a), rest)

\* Mutant: the result slot decides, a non-nil result giving ok.
UnpackResponseResultWins(array, rest) ==
    IF ~Has(array, 1) \/ Get(array, 1).t # "int" THEN Panicked(rest)
    ELSE LET id == AsU64(Get(array, 1)) IN
    IF ~id.some THEN Panicked(rest)
    ELSE IF ~Has(array, 2) \/ ~Has(array, 3) THEN Panicked(rest)
    ELSE LET err == Get(array, 2)
             rpc_result == Get(array, 3)
             result == IF rpc_result = Nil /\ err # Nil THEN Err(err) ELSE Ok(rpc_result)
         IN Returned(Response(AsU32(id), result), rest)

UnpackResponse(array, rest) ==
    IF ~Has(array, 1) \/ Get(array, 1).t # "int" THEN Panicked(rest)
    ELSE LET id == AsU64(Get(array, 1)) IN
    IF ~id.some THEN Panicked(rest)
    ELSE IF ~Has(array, 2) \/ ~Has(array, 3) THEN Panicked(rest)
    ELSE LET err == Get(array, 2)
             rpc_result == Get(array, 3)
             result == IF err = Nil THEN Ok(rpc_result) ELSE Err(err)
         IN Returned(Response(AsU32(id), result), rest)

UnpackNotification(array, rest) ==
    IF ~Has(array, 1) \/ Get(array, 1).t # "str" THEN Panicked(rest)
    ELSE IF ~Has(array, 2) \/ Get(array, 2).t # "arr" THEN Panicked(rest)
    ELSE IF ~Get(array, 1).utf8 THEN Panicked(rest)
    ELSE Returned(Notification(Get(array, 1).s, Get(array, 2).a), rest)

\* The body of unpack after read_value has taken one value off the reader.
UnpackValue(rv) ==
    IF ~rv.ok THEN Panicked(rv.rest)
    ELSE IF rv.v.t # "arr" THEN Panicked(rv.rest)
    ELSE LET array == rv.v.a IN
    IF ~Has(array, 0) THEN Panicked(rv.rest)
    ELSE IF Get(array, 0).t # "int" THEN Panicked(rv.rest)
    ELSE LET msg_type == AsI64(Get(array, 0)) IN
         CASE IsSome(msg_type, 0) -> UnpackRequest(array, rv.rest)
           [] IsSome(msg_type, 1) -> UnpackResponse(array, rv.rest)
           [] IsSome(msg_type, 2) -> UnpackNotification(array, rv.rest)
           [] OTHER -> Panicked(rv.rest)

\* Mutant: the reader is drained (a buffering reader that is dropped).
unpackDrain(reader) ==
    Only({UnpackValue([rv EXCEPT !.rest = <<>>]) : rv \in {ReadValue(reader)}})

unpack(reader) == Only({UnpackValue(rv) : rv \in {ReadValue(reader)}})

---------------------------------------------------------------------------
(* Bounded inputs *)

MaxItems == 2       \* messages packed back to back on one stream
MaxExtra == 1       \* elements a raw array may carry beyond the fourth
MaxSends == 2       \* values the peers send to the server, in all
ShortWrite == 3     \* tokens a short write() takes (array header, tag, id)

Ids == {0, 1}
Payloads == {Nil, IntU(0, 1), Arr(<<Str("hi")>>)}
ParamLists == {<<>>, <<Str("hi")>>}
Outcomes == {Ok(v) : v \in Payloads} \cup {Err(v) : v \in Payloads}

Requests == {Request(i, "echo", p) : i \in Ids, p \in ParamLists}
Responses == {Response(i, r) : i \in Ids, r \in Outcomes}
Notifications == {Notification("ping", p) : p \in ParamLists}
Messages == Requests \cup Responses \cup Notifications

SeqsUpTo(S, n) == UNION {[1..k -> S] : k \in 0..n}

\* Raw values a peer may put on the wire: scalars, and arrays of up to
\* 4 + MaxExtra elements whose first element is a candidate type tag.
Tags == {IntU(0, 0), IntU(0, 1), IntU(0, 2), IntU(0, 3), IntNeg(1), IntU(1, 1), Nil}
SlotVals == {Nil, IntU(0, 1), IntU(1, 1), IntNeg(1), Str("m"), BadStr, Arr(<<>>)}
ExtraVals == {Nil, IntU(0, 1)}
RawArrays ==
    {Arr(<<>>)} \cup
    {Arr(<<tg>> \o s) : tg \in Tags, s \in SeqsUpTo(SlotVals, 3)} \cup
    {Arr(<<tg>> \o s \o e) : tg \in Tags, s \in [1..3 -> SlotVals],
                             e \in SeqsUpTo(ExtraVals, MaxExtra)}
RawValues == {Nil, IntU(0, 0), Str("m")} \cup RawArrays

RECURSIVE PackAll(_)
PackAll(ms) == IF ms = <<>> THEN <<>> ELSE pack(Head(ms)) \o PackAll(Tail(ms))

---------------------------------------------------------------------------
(* The server's initial state (Server::bind done, handle not yet accepted) *)

Conns == {"c1", "c2"}

ServerInit ==
    /\ backlog = <<>>
    /\ client = [c \in Conns |-> "idle"]
    /\ inbuf = [c \in Conns |-> <<>>]
    /\ outbuf = [c \in Conns |-> <<>>]
    /\ sendLog = [c \in Conns |-> <<>>]
    /\ nread = [c \in Conns |-> 0]
    /\ serverPc = "accept"
    /\ cur = "none"
    /\ tasks = <<>>
    /\ dispatcher = [i \in 0..MaxSends |-> 0]

---------------------------------------------------------------------------
(* The codec on its own: a reader (the Cursor of the tests of message.rs)  *)
(* onto which the packed bytes of up to MaxItems messages, or one raw      *)
(* value, are put, and successive calls of Message::unpack on it.          *)

CodecInit ==
    /\ stream = <<>>
    /\ packed = <<>>
    /\ raw = NoValue
    /\ got = <<>>
    /\ ServerInit

\* The caller of unpack has not been unwound by a panic.
ReaderAlive == got # <<>> => got[Len(got)].kind = "ok"

\* bytes = m.pack(), appended to the reader's input.
CodecPack(m) ==
    /\ raw = NoValue
    /\ Len(packed) < MaxItems
    /\ ReaderAlive
    /\ stream' = stream \o pack(m)
    /\ packed' = Append(packed, m)
    /\ UNCHANGED <<raw, got>>
    /\ UNCHANGED serverVars

\* A peer's own bytes: one msgpack value that pack() did not produce.
CodecWriteRaw ==
    /\ raw = NoValue
    /\ packed = <<>>
    /\ \E v \in RawValues :
          /\ raw' = v
          /\ stream' = WriteValue(v)
    /\ UNCHANGED <<packed, got>>
    /\ UNCHANGED serverVars

\* One call of Message::unpack(&mut reader); after a panic the caller is gone.
CodecUnpack ==
    /\ stream # <<>>
    /\ ReaderAlive
    /\ \E r \in {unpack(stream)} :
       /\ got' = Append(got, r)
       /\ stream' = r.rest
    /\ UNCHANGED <<packed, raw>>
    /\ UNCHANGED serverVars

CodecNext ==
    \/ \E m \in Messages : CodecPack(m)
    \/ CodecWriteRaw
    \/ CodecUnpack

CodecSpec == CodecInit /\ [][CodecNext]_vars


---------------------------------------------------------------------------
(* The server: Server::handle.  The main coroutine accepts a connection    *)
(* and runs the read loop on it; every message read is handed to a fresh   *)
(* coroutine (mioco::spawn), which calls the dispatcher and writes the     *)
(* Response on its clone of the connection.  The peers are the             *)
(* environment: they connect, send values and close.                       *)

\* What the peers send: requests for a handler that returns ("echo"), one
\* that blocks for ever ("hang") and one that panics ("boom"); the two other
\* kinds of message; values that are no message.
PeerRequests == {Request(i, "echo", <<Str("hi")>>) : i \in Ids}
                    \cup {Request(0, "hang", <<>>), Request(0, "boom", <<>>)}
PeerMessages == PeerRequests \cup {Notification("ping", <<>>), Response(0, Ok(Nil))}
PeerRaw == {Arr(<<IntU(0, 3), IntU(0, 0), Str("m"), Arr(<<>>)>>)}
\* What a dispatcher may return.
DispatchOutcomes == {Ok(Arr(<<Str("hi")>>)), Err(Nil), Err(Str("no"))}

Sent(m, v) == [msg |-> m, raw |-> v]
TotalSent == Len(sendLog["c1"]) + Len(sendLog["c2"])

\* A spawned coroutine: its clone of the connection, the message moved into
\* it, where it is, which operation of the dispatcher it has called and the
\* state in which the handler found its dispatcher (-1: not called).
Task(c, n, m) ==
    [conn |-> c, sn |-> n, req |-> m, st |-> "spawned", called |-> "none",
     seen |-> -1, outcome |-> Ok(NoValue), towrite |-> <<>>, written |-> <<>>]

\* A peer connects (the tests' Client::connect_socket).
Connect(c) ==
    /\ client[c] = "idle"
    /\ client' = [client EXCEPT ![c] = "open"]
    /\ backlog' = Append(backlog, c)
    /\ UNCHANGED <<inbuf, outbuf, sendLog, nread, serverPc, cur, tasks, dispatcher>>
    /\ UNCHANGED codecVars

\* A peer writes the packed bytes of a message.
SendMessage(c, m) ==
    /\ client[c] = "open"
    /\ TotalSent < MaxSends
    /\ inbuf' = [inbuf EXCEPT ![c] = @ \o pack(m)]
    /\ sendLog' = [sendLog EXCEPT ![c] = Append(@, Sent(m, NoValue))]
    /\ UNCHANGED <<backlog, client, outbuf, nread, serverPc, cur, tasks, dispatcher>>
    /\ UNCHANGED codecVars

\* A peer writes a value that is no message.
SendRaw(c, v) ==
    /\ client[c] = "open"
    /\ TotalSent < MaxSends
    /\ inbuf' = [inbuf EXCEPT ![c] = @ \o WriteValue(v)]
    /\ sendLog' = [sendLog EXCEPT ![c] = Append(@, Sent(NoMsg, v))]
    /\ UNCHANGED <<backlog, client, outbuf, nread, serverPc, cur, tasks, dispatcher>>
    /\ UNCHANGED codecVars

\* A peer closes its connection.
Close(c) ==
    /\ client[c] = "open"
    /\ client' = [client EXCEPT ![c] = "closed"]
    /\ UNCHANGED <<backlog, inbuf, outbuf, sendLog, nread, serverPc, cur, tasks, dispatcher>>
    /\ UNCHANGED codecVars

\* listener.accept(): the main coroutine takes the next connection and
\* enters the read loop on it.
Accept ==
    /\ serverPc = "accept"
    /\ backlog # <<>>
    /\ cur' = Head(backlog)
    /\ backlog' = Tail(backlog)
    /\ serverPc' = "read"
    /\ UNCHANGED <<client, inbuf, outbuf, sendLog, nread, tasks, dispatcher>>
    /\ UNCHANGED codecVars

\* Mutant: the handler runs inside the read loop, which reads again only
\* when no handler is pending.
ReadReadyInline ==
    /\ serverPc = "read"
    /\ inbuf[cur] # <<>> \/ client[cur] = "closed"
    /\ \A t \in 1..Len(tasks) : tasks[t].st \in {"done", "panicked"}

\* Mutant: a handler's error is a failure of the connection: the read loop
\* stops reading it.
ReadReadyUnlessErr ==
    /\ serverPc = "read"
    /\ inbuf[cur] # <<>> \/ client[cur] = "closed"
    /\ \A t \in 1..Len(tasks) : tasks[t].conn = cur => tasks[t].outcome.ok

\* The read loop is at Message::unpack(&mut conn) and may take a step: a
\* value has arrived, or the peer has closed (end of input).
ReadReady ==
    /\ serverPc = "read"
    /\ inbuf[cur] # <<>> \/ client[cur] = "closed"

\* One turn of the read loop: unpack, then clone the dispatcher passed to
\* handle and spawn a coroutine for the message, the clone moved into it.
\* A panic in unpack unwinds the main coroutine (and with it handle()); an
\* Err would leave it through try!.
Read ==
    /\ ReadReady
    /\ \E r \in {unpack(inbuf[cur])} :
       /\ inbuf' = [inbuf EXCEPT ![cur] = r.rest]
       /\ IF r.kind = "ok"
          THEN /\ tasks' = Append(tasks, Task(cur, nread[cur] + 1, r.msg))
               /\ dispatcher' = [dispatcher EXCEPT ![Len(tasks) + 1] = dispatcher[0]]
               /\ nread' = [nread EXCEPT ![cur] = @ + 1]
               /\ serverPc' = "read"
          ELSE /\ serverPc' = "dead"
               /\ UNCHANGED <<tasks, nread, dispatcher>>
    /\ UNCHANGED <<backlog, client, outbuf, sendLog, cur>>
    /\ UNCHANGED codecVars

\* Mutant: the Response does not take the Request's id.
ResponseIdZero(id, result) == Response(0, result)

\* Message::Response(Response { id: id, result: result })
ResponseFor(id, result) == Response(id, result)

\* Mutant: the handlers run on the dispatcher passed to handle.
HandlerSelfOriginal(t) == 0

\* The dispatcher a handler runs on (its &mut self): the clone moved into
\* its coroutine.
HandlerSelf(t) == t

\* What a handler may do to its dispatcher through &mut self: here, count
\* the call.
HandlerEffect(d) == d + 1

\* The spawned coroutine runs: a Request goes to Dispatch::dispatch of its
\* dispatcher, which changes its state and then returns an outcome, blocks
\* or panics; any other message hits unimplemented!() (Dispatch::notify is
\* never called).
Dispatch(t, o) ==
    /\ t \in 1..Len(tasks)
    /\ tasks[t].st = "spawned"
    /\ LET req == tasks[t].req IN
       IF req.kind # "Request"
       THEN /\ tasks' = [tasks EXCEPT ![t] = [@ EXCEPT !.st = "panicked"]]
            /\ UNCHANGED dispatcher
       ELSE /\ tasks' = [tasks EXCEPT ![t] =
                IF req.method = "boom"
                THEN [@ EXCEPT !.st = "panicked", !.called = "dispatch",
                               !.seen = dispatcher[HandlerSelf(t)]]
                ELSE IF req.method = "hang"
                THEN [@ EXCEPT !.st = "blocked", !.called = "dispatch",
                               !.seen = dispatcher[HandlerSelf(t)]]
                ELSE [@ EXCEPT !.st = "writing", !.called = "dispatch",
                               !.seen = dispatcher[HandlerSelf(t)],
                               !.outcome = o,
                               !.towrite = pack(ResponseFor(req.id, o))]]
            /\ dispatcher' = [dispatcher EXCEPT ![HandlerSelf(t)] = HandlerEffect(@)]
    /\ UNCHANGED <<backlog, client, inbuf, outbuf, sendLog, nread, serverPc, cur>>
    /\ UNCHANGED codecVars

\* The sizes one write() of write_all's loop may take of what is left: all
\* of it, or (a short write, the socket's buffer being full) only the first
\* ShortWrite tokens.
WriteSizes(towrite) == {Len(towrite)} \cup {n \in {ShortWrite} : n < Len(towrite)}

\* conn.write_all(..): one write() of the loop puts the next n tokens on
\* the wire; other coroutines may write to the same connection in between.
Write(t, n) ==
    /\ t \in 1..Len(tasks)
    /\ tasks[t].st = "writing"
    /\ n \in WriteSizes(tasks[t].towrite)
    /\ LET tk == tasks[t]
           chunk == SubSeq(tk.towrite, 1, n)
           left == SubSeq(tk.towrite, n + 1, Len(tk.towrite))
       IN /\ outbuf' = [outbuf EXCEPT ![tk.conn] = @ \o chunk]
          /\ tasks' = [tasks EXCEPT ![t] =
                [@ EXCEPT !.towrite = left, !.written = @ \o chunk,
                          !.st = IF left = <<>> THEN "done" ELSE "writing"]]
    /\ UNCHANGED <<backlog, client, inbuf, sendLog, nread, serverPc, cur, dispatcher>>
    /\ UNCHANGED codecVars

\* write_all fails once the peer has gone: .unwrap() panics the coroutine.
WriteFail(t) ==
    /\ t \in 1..Len(tasks)
    /\ tasks[t].st = "writing"
    /\ client[tasks[t].conn] = "closed"
    /\ tasks' = [tasks EXCEPT ![t] = [@ EXCEPT !.st = "panicked"]]
    /\ UNCHANGED <<backlog, client, inbuf, outbuf, sendLog, nread, serverPc, cur, dispatcher>>
    /\ UNCHANGED codecVars

TaskIds == 1..MaxSends
WriteSome(t) ==
    /\ t \in 1..Len(tasks)
    /\ \E n \in WriteSizes(tasks[t].towrite) : Write(t, n)
DispatchSome(t) == \E o \in DispatchOutcomes : Dispatch(t, o)

Init ==
    /\ stream = <<>>
    /\ packed = <<>>
    /\ raw = NoValue
    /\ got = <<>>
    /\ ServerInit

Next ==
    \/ \E c \in Conns : Connect(c)
    \/ \E c \in Conns, m \in PeerMessages : SendMessage(c, m)
    \/ \E c \in Conns, v \in PeerRaw : SendRaw(c, v)
    \/ \E c \in Conns : Close(c)
    \/ Accept
    \/ Read
    \/ \E t \in TaskIds : DispatchSome(t)
    \/ \E t \in TaskIds : WriteSome(t)
    \/ \E t \in TaskIds : WriteFail(t)

Spec == Init /\ [][Next]_vars

\* A step of one of the server's coroutines.
ServerStep ==
    \/ Accept
    \/ Read
    \/ \E t \in TaskIds : DispatchSome(t)
    \/ \E t \in TaskIds : WriteSome(t)

\* mioco keeps running its runnable coroutines: while one of them can take
\* a step, one of them does.
FairSpec == Spec /\ WF_vars(ServerStep)

---------------------------------------------------------------------------
(* Properties of the codec (under CodecSpec) *)

\* The reader holds pack(m) for one message m, and unpack has been called once.
OnePacked == Len(packed) = 1 /\ Len(got) = 1
\* The reader holds one raw value, and unpack has been called once.
OneRaw == packed = <<>> /\ Len(got) = 1
IsArrayOf(v, n) == v.t = "arr" /\ Len(v.a) = n
TagIs(v, n) == v.t = "arr" /\ Len(v.a) >= 1 /\ v.a[1] = IntU(0, n)
ErrNil(m) == m.kind = "Response" /\ m.result = Err(Nil)
\* What a message reads back as: itself, but Response err(nil) as ok(nil).
ReadBack(m) == IF ErrNil(m) THEN Response(m.id, Ok(Nil)) ELSE m

\* C1 (as claimed): for every Message m, including a Response with outcome
\* err(nil), unpack(pack(m)) returns a Message equal to m.
C1_RoundTripAll ==
    OnePacked => got[1].kind = "ok" /\ got[1].msg = packed[1]

\* C1 (amended): for every Message m other than a Response with outcome
\* err(nil), unpack(pack(m)) returns m; Response{id, err(nil)} comes back as
\* Response{id, ok(nil)}.
C1_RoundTrip ==
    OnePacked =>
        /\ got[1].kind = "ok"
        /\ ~ErrNil(packed[1]) => got[1].msg = packed[1]
        /\ ErrNil(packed[1]) => got[1].msg = Response(packed[1].id, Ok(Nil))

C1_Witness ==
    /\ OnePacked
    /\ packed[1].kind = "Response"
    /\ ~packed[1].result.ok
    /\ packed[1].result.v = Arr(<<Str("hi")>>)
    /\ got[1].msg = packed[1]

\* A Response was packed onto the reader and nothing has been read yet.
FreshResponse == packed # <<>> /\ got = <<>> /\ packed[1].kind = "Response"
\* The first value on the reader.
FirstOnWire == ReadValue(stream).v
NonNil(v) == v # Nil

\* C5 (as claimed): pack of a Response is [1, id, error, result] with
\* exactly one of error and result non-nil, for every outcome value.
C5_ExactlyOneNonNil ==
    FreshResponse =>
        LET w == FirstOnWire IN
        /\ IsArrayOf(w, 4)
        /\ w.a[1] = IntU(0, 1)
        /\ w.a[2] = IntU(0, packed[1].id)
        /\ NonNil(w.a[3]) # NonNil(w.a[4])

\* C5 (amended): pack of a Response is [1, id, error, result] with at most
\* one of error and result non-nil: ok(v) gives error = nil, result = v;
\* err(e) gives error = e, result = nil; both slots are nil exactly when the
\* outcome's value is nil.
C5_ResponseWire ==
    FreshResponse =>
        LET w == FirstOnWire
            r == packed[1].result
        IN
        /\ IsArrayOf(w, 4)
        /\ w.a[1] = IntU(0, 1)
        /\ w.a[2] = IntU(0, packed[1].id)
        /\ r.ok => w.a[3] = Nil /\ w.a[4] = r.v
        /\ ~r.ok => w.a[3] = r.v /\ w.a[4] = Nil
        /\ ~(NonNil(w.a[3]) /\ NonNil(w.a[4]))
        /\ (NonNil(w.a[3]) \/ NonNil(w.a[4])) <=> NonNil(r.v)

C5_Witness ==
    /\ Len(packed) = 1
    /\ got = <<>>
    /\ packed[1] = Response(1, Err(Arr(<<Str("hi")>>)))
    /\ stream = <<ArrHdr(4), Scalar(IntU(0, 1)), Scalar(IntU(0, 1)),
                  ArrHdr(1), Scalar(Str("hi")), Scalar(Nil)>>

\* C6: unpack of a 4-element array [1, id, error, result] (id an unsigned
\* integer) returns a Response whose outcome is ok(result) iff error is
\* nil, and err(error) otherwise, whatever result holds.
C6_ErrorWins ==
    (OneRaw /\ IsArrayOf(raw, 4) /\ TagIs(raw, 1)) =>
        /\ (raw.a[2].t = "int" /\ ~raw.a[2].neg) => got[1].kind = "ok"
        /\ got[1].kind = "ok" =>
            /\ got[1].msg.kind = "Response"
            /\ got[1].msg.result.ok <=> raw.a[3] = Nil
            /\ raw.a[3] = Nil => got[1].msg.result = Ok(raw.a[4])
            /\ raw.a[3] # Nil => got[1].msg.result = Err(raw.a[3])

\* An error slot and a result slot both non-nil: the error wins.
C6_Witness ==
    /\ OneRaw
    /\ raw = Arr(<<IntU(0, 1), IntU(0, 1), Str("m"), Arr(<<>>)>>)
    /\ got[1].kind = "ok"
    /\ got[1].msg = Response(1, Err(Str("m")))

\* C7: unpack of an array whose first element is an integer outside
\* {0, 1, 2} returns a Malformed error to its caller (no Message, no panic).
UnknownTag(v) ==
    /\ v.t = "arr" /\ Len(v.a) >= 1 /\ v.a[1].t = "int"
    /\ v.a[1] \notin {IntU(0, 0), IntU(0, 1), IntU(0, 2)}
C7_UnknownTagIsMalformed ==
    (OneRaw /\ UnknownTag(raw)) => got[1].kind = "err"

\* C8: unpack never returns a Message for a value of the wrong shape: not
\* an array, tag 0 or 1 with a length other than 4, tag 2 with a length
\* other than 3.
WrongShape(v) ==
    \/ v.t # "arr"
    \/ (TagIs(v, 0) \/ TagIs(v, 1)) /\ Len(v.a) # 4
    \/ TagIs(v, 2) /\ Len(v.a) # 3
C8_WrongShapeNoMessage ==
    (OneRaw /\ WrongShape(raw)) => got[1].kind # "ok"

\* C9: unpack never returns a Request or Response whose id differs from the
\* integer in the id slot; an id above 2^32 - 1 gives no message.
C9_IdNotReduced ==
    (OneRaw /\ (TagIs(raw, 0) \/ TagIs(raw, 1)) /\ got[1].kind = "ok") =>
        /\ raw.a[2].hi = 0
        /\ got[1].msg.id = raw.a[2].lo

\* The packed bytes of the messages after the i-th.
RECURSIVE Drop(_, _)
Drop(s, n) == IF n = 0 \/ s = <<>> THEN s ELSE Drop(Tail(s), n - 1)

\* C10 (as claimed): on the concatenation of pack(m1) .. pack(mk), the i-th
\* call of unpack returns mi, and after it the reader is at the first byte
\* of pack(m(i+1)).
C10_StreamAll ==
    packed # <<>> =>
        /\ \A i \in 1..Len(got) : got[i].kind = "ok" /\ got[i].msg = packed[i]
        /\ stream = PackAll(Drop(packed, Len(got)))

\* C10 (amended): the i-th call returns mi as it reads back (mi itself,
\* but a Response err(nil) as ok(nil)), and after it the reader is at the
\* first byte of pack(m(i+1)).
C10_Stream ==
    packed # <<>> =>
        /\ \A i \in 1..Len(got) :
               got[i].kind = "ok" /\ got[i].msg = ReadBack(packed[i])
        /\ stream = PackAll(Drop(packed, Len(got)))

C10_Witness ==
    /\ Len(packed) = 2
    /\ Len(got) = 2
    /\ packed[1].kind = "Response"
    /\ packed[1].result.v.t = "arr"
    /\ packed[2].kind = "Request"
    /\ got[2].msg = packed[2]
    /\ stream = <<>>

---------------------------------------------------------------------------
(* Properties of the server (under Spec and FairSpec) *)

\* Task t was spawned for a Request, its handler returned and its write_all
\* has finished.
Answered(t) ==
    t \in 1..Len(tasks) /\ tasks[t].req.kind = "Request" /\ tasks[t].st = "done"

\* C2 (as claimed): the Response a task writes back reads as the Request's
\* id with the outcome the dispatcher returned, ok(v) or err(e), for every
\* outcome.
C2_ResponseAll ==
    \A t \in TaskIds :
        Answered(t) =>
            unpack(tasks[t].written)
                = Returned(Response(tasks[t].req.id, tasks[t].outcome), <<>>)

\* C2 (amended): the Response a task writes back reads as the Request's id
\* with the outcome the dispatcher returned: ok(v) for ok(v), err(e) for
\* err(e) with e not nil; a returned err(nil) is written as [1, id, nil, nil],
\* which reads as ok(nil).
C2_Response ==
    \A t \in TaskIds :
        Answered(t) =>
            LET r == unpack(tasks[t].written)
                o == tasks[t].outcome
            IN
            /\ r.kind = "ok" /\ r.rest = <<>>
            /\ r.msg.kind = "Response"
            /\ r.msg.id = tasks[t].req.id
            /\ o # Err(Nil) => r.msg.result = o
            /\ o = Err(Nil) => r.msg.result = Ok(Nil)

C2_Witness ==
    \E t \in TaskIds :
        /\ Answered(t)
        /\ tasks[t].req.id = 1
        /\ tasks[t].outcome = Err(Str("no"))
        /\ unpack(outbuf[tasks[t].conn]).msg = Response(1, Err(Str("no")))

\* The k-th value sent on c is a Request whose handler returns, everything
\* sent before it on c is a message, and the read loop is on c.
ReturningRequestSent(c, k) ==
    /\ cur = c /\ serverPc = "read"
    /\ k <= Len(sendLog[c])
    /\ \A j \in 1..k : sendLog[c][j].msg # NoMsg
    /\ sendLog[c][k].msg.kind = "Request"
    /\ sendLog[c][k].msg.method = "echo"
\* A handler of an earlier Request of c blocks.
EarlierBlocked(c, k) ==
    \E t \in 1..Len(tasks) :
        tasks[t].conn = c /\ tasks[t].sn < k /\ tasks[t].st = "blocked"
\* The Response to the k-th value sent on c has been written.
ResponseWritten(c, k) ==
    \E t \in 1..Len(tasks) : tasks[t].conn = c /\ tasks[t].sn = k /\ Answered(t)

\* C3: when a Request whose handler returns is sent on a connection on
\* which the handler of an earlier Request is blocked, its Response is
\* eventually written, the earlier handler still blocked (unless the peer
\* closes the connection first).
C3_NoStall ==
    \A c \in Conns : \A k \in TaskIds :
        (ReturningRequestSent(c, k) /\ EarlierBlocked(c, k))
            ~> ((ResponseWritten(c, k) /\ EarlierBlocked(c, k)) \/ client[c] = "closed")

C3_Witness ==
    \E c \in Conns :
        /\ client[c] = "open"
        /\ ResponseWritten(c, 2)
        /\ EarlierBlocked(c, 2)

\* The messages a peer reads off what was written to it, until the bytes
\* run out or stop being a message.
RECURSIVE UnpackAll(_)
UnpackAll(toks) ==
    IF toks = <<>> THEN <<>>
    ELSE LET r == unpack(toks) IN
         IF r.kind # "ok" THEN <<r>> ELSE <<r>> \o UnpackAll(r.rest)

TasksOf(c) == {t \in 1..Len(tasks) : tasks[t].conn = c}
\* Every message read on c was a Request, their ids differ, and every
\* handler has returned and written its Response.
AllAnswered(c) ==
    /\ TasksOf(c) # {}
    /\ \A t \in TasksOf(c) : Answered(t)
    /\ \A t, u \in TasksOf(c) : t # u => tasks[t].req.id # tasks[u].req.id

\* C4: once the handlers of the N Requests read on a connection have
\* completed, in whatever order, what the peer reads back is N Responses:
\* for every Request exactly one, with its id and its outcome (as the
\* outcome reads back), and none with another id.
C4_OneResponseEach ==
    \A c \in Conns :
        AllAnswered(c) =>
            LET rs == UnpackAll(outbuf[c]) IN
            /\ Len(rs) = Cardinality(TasksOf(c))
            /\ \A i \in 1..Len(rs) : rs[i].kind = "ok" /\ rs[i].msg.kind = "Response"
            /\ \A t \in TasksOf(c) :
                   \E i \in 1..Len(rs) :
                       /\ rs[i].msg = ReadBack(Response(tasks[t].req.id, tasks[t].outcome))
                       /\ \A j \in 1..Len(rs) : rs[j].msg.id = tasks[t].req.id => j = i

---------------------------------------------------------------------------
(* The server's handling of the other kinds of message, of end of input    *)
(* and of failures (under Spec and FairSpec)                                *)

\* Task t exists and its coroutine has run its match on the message.
HasRun(t) == t \in 1..Len(tasks) /\ tasks[t].st # "spawned"

\* C11: the task spawned for a Notification calls the dispatcher's notify
\* with its method and params and ends normally, and no Response is written
\* for it.
C11_NotificationHandled ==
    \A t \in TaskIds :
        (HasRun(t) /\ tasks[t].req.kind = "Notification") =>
            /\ tasks[t].called = "notify"
            /\ tasks[t].st = "done"
            /\ tasks[t].written = <<>>

\* The peers have sent nothing but well-formed messages, so that the only
\* way a read can fail is end of input.
OnlyMessagesSent ==
    \A c \in Conns : \A j \in 1..Len(sendLog[c]) : sendLog[c][j].msg # NoMsg
\* No peer has closed its connection, so that no read has met end of input.
NoPeerClosed == \A c \in Conns : client[c] # "closed"

\* C12: Server::handle does not end when a peer closes its connection: as
\* long as the peers send only well-formed messages, the main coroutine is
\* still accepting or reading, whichever connections have reached end of
\* input.
C12_ServerOutlivesEOF == OnlyMessagesSent => serverPc # "dead"

\* The read loop is on connection d, whose peer keeps it open, and the peer
\* of another connection c has connected and sent, as its first value, a
\* Request whose handler returns.
SecondClientAsks(c, d) ==
    /\ c # d
    /\ serverPc = "read" /\ cur = d /\ client[d] = "open"
    /\ client[c] = "open"
    /\ sendLog[c] # <<>>
    /\ sendLog[c][1].msg # NoMsg
    /\ sendLog[c][1].msg.kind = "Request"
    /\ sendLog[c][1].msg.method = "echo"

\* C13: while a first connection is open, a Request sent by a second client
\* is eventually read and answered, without the first connection closing
\* (unless the second peer closes first).
C13_SecondConnectionServed ==
    \A c \in Conns : \A d \in Conns :
        SecondClientAsks(c, d)
            ~> \/ ResponseWritten(c, 1)
               \/ client[c] = "closed"
               \/ client[d] = "closed"
               \/ serverPc = "dead"

\* Task t is inside its write_all: part of its Response is on the wire.
MidWrite(t) ==
    t \in 1..Len(tasks) /\ tasks[t].st = "writing" /\ tasks[t].written # <<>>
EndsWith(s, x) ==
    Len(x) <= Len(s) /\ SubSeq(s, Len(s) - Len(x) + 1, Len(s)) = x

\* C14: writes on a connection are serialized: while a task is inside its
\* write_all, the last bytes on the wire of its connection are the ones it
\* has written so far (no other task has written in between).
C14_WritesSerialized ==
    \A t \in TaskIds :
        MidWrite(t) => EndsWith(outbuf[tasks[t].conn], tasks[t].written)

\* C15: a malformed message does not end the server: as long as no peer has
\* closed its connection, the main coroutine is still accepting or reading,
\* whatever values were read; and no task is spawned for a value that is
\* no message.
C15_MalformedContained ==
    /\ NoPeerClosed => serverPc # "dead"
    /\ \A c \in Conns : nread[c] = Cardinality(TasksOf(c))

\* C16: a panic of a request handler is turned by its task into a Response
\* with the Request's id and the outcome err("internal error").
C16_HandlerPanicAnswered ==
    \A t \in TaskIds :
        (HasRun(t) /\ tasks[t].req.kind = "Request" /\ tasks[t].req.method = "boom") =>
            /\ tasks[t].st \in {"writing", "done"}
            /\ tasks[t].outcome = Err(Str("internal error"))
            /\ tasks[t].towrite \o tasks[t].written
                   = pack(Response(tasks[t].req.id, Err(Str("internal error"))))

\* Task t's handler returned err(e) and its Response is written.
ErrAnswered(t) == Answered(t) /\ ~tasks[t].outcome.ok
\* The Response of an earlier Request of c, whose handler returned an
\* error, is written.
EarlierErr(c, k) ==
    \E t \in 1..Len(tasks) :
        tasks[t].conn = c /\ tasks[t].sn < k /\ ErrAnswered(t)
\* The main coroutine ends only on end of input or on a value that is no
\* message: never on a handler's error.
DeathHasCause == serverPc = "dead" => (~NoPeerClosed \/ ~OnlyMessagesSent)
\* A Request sent on a connection on which an err Response was written is
\* still read, dispatched and answered (unless the peer closes first).
AnsweredAfterErr ==
    \A c \in Conns : \A k \in TaskIds :
        (ReturningRequestSent(c, k) /\ EarlierErr(c, k))
            ~> (ResponseWritten(c, k) \/ client[c] = "closed")

\* C17 (as claimed): a handler's err(e) is written as a Response that reads
\* as err(e), for every e; it does not end the read loop, and a Request
\* sent on the connection after it is still answered.
C17_ErrIsResponseAll ==
    /\ [](\A t \in TaskIds :
            ErrAnswered(t) =>
                unpack(tasks[t].written)
                    = Returned(Response(tasks[t].req.id, tasks[t].outcome), <<>>))
    /\ []DeathHasCause
    /\ AnsweredAfterErr

\* C17 (amended): a handler's err(e), e not nil, is written as a Response
\* that reads as err(e) with the Request's id (err(nil) reads as ok(nil));
\* it does not end the read loop, and a Request sent on the connection
\* after it is still answered.
C17_ErrIsResponse ==
    /\ [](\A t \in TaskIds :
            ErrAnswered(t) =>
                unpack(tasks[t].written)
                    = Returned(ReadBack(Response(tasks[t].req.id, tasks[t].outcome)), <<>>))
    /\ []DeathHasCause
    /\ AnsweredAfterErr

C17_Witness ==
    \E c \in Conns : \E t \in TaskIds :
        /\ client[c] = "open" /\ serverPc = "read" /\ cur = c
        /\ ErrAnswered(t) /\ tasks[t].conn = c /\ tasks[t].sn = 1
        /\ tasks[t].outcome = Err(Str("no"))
        /\ unpack(tasks[t].written).msg = Response(tasks[t].req.id, Err(Str("no")))
        /\ ResponseWritten(c, 2)

\* C18: a task whose handler returned after the peer had closed the
\* connection ends normally: the failure of its write does not abort it.
C18_LateResponseDiscarded ==
    \A t \in TaskIds :
        (HasRun(t) /\ tasks[t].req.kind = "Request" /\ tasks[t].req.method = "echo"
            /\ client[tasks[t].conn] = "closed") =>
                tasks[t].st # "panicked"

\* C19: a Response read by the server is ignored: its task calls no
\* operation of the dispatcher, writes nothing and does not fail.
C19_ResponseIgnored ==
    \A t \in TaskIds :
        (HasRun(t) /\ tasks[t].req.kind = "Response") =>
            /\ tasks[t].called = "none"
            /\ tasks[t].written = <<>>
            /\ tasks[t].st # "panicked"

\* C20: every handler finds its dispatcher in the state of the dispatcher
\* passed to handle, whatever other handlers have done to theirs, and the
\* dispatcher passed to handle never changes.
C20_FreshClone ==
    /\ dispatcher[0] = 0
    /\ \A t \in TaskIds :
           (HasRun(t) /\ tasks[t].called = "dispatch") =>
               /\ tasks[t].seen = dispatcher[0]
               /\ dispatcher[t] = HandlerEffect(dispatcher[0])

\* Two handlers have run, on the same connection, each on its own clone.
C20_Witness ==
    \E t \in TaskIds : \E u \in TaskIds :
        /\ t # u /\ HasRun(t) /\ HasRun(u)
        /\ tasks[t].conn = tasks[u].conn
        /\ tasks[t].called = "dispatch" /\ tasks[u].called = "dispatch"
        /\ tasks[t].seen = 0 /\ tasks[u].seen = 0
        /\ dispatcher[t] = 1 /\ dispatcher[u] = 1
        /\ dispatcher[0] = 0

====
